---- MODULE Spec2Model ----
(***************************************************************************)
(* Rapture-Transcoder.                                                     *)
(*                                                                         *)
(* Three parts of the repository are modelled:                             *)
(*   - the HandBrake pipeline of HT_linuxbuild.py (main, process_file,     *)
(*     transcode_file, verify_transcoded_file) driven from the worker      *)
(*     thread of transcoder_gui.py, with the GUI thread pressing           *)
(*     pause/resume and cancel concurrently               (SpecHT);        *)
(*   - the ffmpeg pipeline of run_transcode.py (process_directory,         *)
(*     transcode_video, verify_transcoding)               (SpecFF);        *)
(*   - encoder resolution of run_transcode.py (get_encoder,                *)
(*     check_encoder_support)                             (SpecEnc).       *)
(***************************************************************************)
EXTENDS Integers, Sequences, FiniteSets, TLC

\* ------------------------------------------------------------------ bounds
MaxJobs == 2
MaxLines == 2
MaxToggles == 2

Jobs == 1..MaxJobs

\* ------------------------------------------------------- program constants
\* Durations are fixed-point numbers, in tenths of a second.
\* HT_linuxbuild.py:83   abs(input_duration - output_duration) > 2
HT_DURATION_TOLERANCE == 20
\* HT_linuxbuild.py:91   output_codec != 'av1'
HT_EXPECTED_CODEC == "av1"

\* --------------------------------------------------------------- the files
\* What the file system and ffprobe say about a file.  "probe" is the outcome
\* of get_video_info: "raise" (ffprobe cannot be run, or prints no JSON),
\* "nofmt" (ffprobe prints {} : no 'format' key), "ok" (format and streams).
Codecs == {"av1", "h264"}

NoFile == [state |-> "none", size |-> 0, probe |-> "nofmt", dur |-> 0,
           codec |-> "none", audio |-> FALSE, video |-> FALSE]

\* A probed input: 5.0 seconds long.
Media(a, v) == [state |-> "data", size |-> 2, probe |-> "ok", dur |-> 50,
                codec |-> "h264", audio |-> a, video |-> v]

\* Files that cannot be probed: with content, empty, or (outputs) missing.
Unprobed(states) ==
  { [NoFile EXCEPT !.state = s, !.size = IF s = "data" THEN 1 ELSE 0,
                   !.probe = p] : s \in states, p \in {"raise", "nofmt"} }

\* Input files come from a directory listing: they exist.  Only a file with
\* content can be probed successfully.
InFiles ==
  { Media(a, v) : a \in BOOLEAN, v \in BOOLEAN }
  \cup Unprobed({"data"}) \cup { [NoFile EXCEPT !.state = "empty"] }

\* Output files as the external process leaves them (complete or partial):
\* the output keeps the input's streams (-map 0, -c:a copy); its duration is
\* 1, 2 or 3 seconds off the input's.
OutFiles(inF) ==
  { [Media(inF.audio, inF.video) EXCEPT !.size = 1, !.dur = d, !.codec = c] :
       d \in {60, 70, 80}, c \in Codecs }
  \cup Unprobed({"data", "missing", "empty"})

\* The files HandBrake is given have a video and an audio stream; the
\* HandBrake pipeline does not look at them.
HTInFiles == { f \in InFiles : f.probe = "ok" => f.audio /\ f.video }
HTOutFiles(inF) ==
  { f \in OutFiles(inF) : f.probe = "ok" =>
       \/ f.dur = 70
       \/ f.dur = 80 /\ f.codec = "av1" }

Abs(x) == IF x < 0 THEN -x ELSE x

\* ------------------------------------------------ verify_transcoded_file
\* HT_linuxbuild.py:64-94.  Both files are probed first (70-71), then the
\* existence test (74), the duration test (78-84) and the codec test (87-92).
Raised == [raised |-> TRUE, passed |-> FALSE, reason |-> "exception"]
Verdict(p, r) == [raised |-> FALSE, passed |-> p, reason |-> r]

verify_transcoded_file(input_file, output_file) ==
  IF input_file.probe = "raise" \/ output_file.probe = "raise"
    THEN Raised
  ELSE IF output_file.state = "missing" \/ output_file.size = 0
    THEN Verdict(FALSE, "Output file is missing or empty")
  ELSE IF input_file.probe = "nofmt" \/ output_file.probe = "nofmt"
    THEN Raised
  ELSE IF Abs(input_file.dur - output_file.dur) > HT_DURATION_TOLERANCE
    THEN Verdict(FALSE, "Duration mismatch")
  ELSE IF output_file.codec # HT_EXPECTED_CODEC
    THEN Verdict(FALSE, "Incorrect video codec")
  ELSE Verdict(TRUE, "Verification passed")

\* ---------------------------------------------------------------- state
VARIABLES
  \* --- HT_linuxbuild.py / transcoder_gui.py
  hpc,              \* position of the worker thread
  cur,              \* index of the file main's loop is at (MaxJobs+1: past the end)
  status,           \* per job: the engine's state
  procState,        \* per job: its HandBrakeCLI process
  verifiedWhen,     \* per job: the process states the verifier was invoked in
  verifyReason,     \* per job: outcome of the engine's verification
  result,           \* per job: what process_file returned to main
  inputDeleted,     \* per job: os.remove(full_path) happened
  outputDeleted,    \* per job: the output file was removed
  all_stats,        \* main's list of successes
  command_queue,    \* the global Queue
  pause_event,      \* the global Event
  is_paused,        \* TranscoderGUI.is_paused
  cancel_flag,      \* TranscoderGUI.cancel_flag
  toggles,          \* presses of the pause button so far
  delete_original,  \* the run's setting
  linesRead,        \* lines the current process has emitted
  line,             \* the line being handled
  inFile, outFile,  \* the current job's files
  transcode_result, \* transcode_file's return value
  callbacks         \* calls of the progress callback for the current job

htvars == <<hpc, cur, status, procState, verifiedWhen, verifyReason, result,
            inputDeleted, outputDeleted, all_stats, command_queue,
            pause_event, is_paused, cancel_flag, toggles, delete_original,
            linesRead, line, inFile, outFile, transcode_result, callbacks>>

VARIABLES
  \* --- run_transcode.py: process_directory / transcode_video
  fpc,               \* position in process_directory / transcode_video
  fcur,              \* index into files_to_process
  fstatus,           \* per job: Queued, Running, Completed, Failed
  fproc,             \* per job: its ffmpeg process
  fverify,           \* per job: what verify_transcoding returned
  fverifiedWhen,     \* per job: the process states the verifier was invoked in
  fInputDeleted,     \* per job: os.remove(input_path) happened
  failed_files,      \* process_directory's list
  processed_files,   \* process_directory's list of <<job, size_saved>>
  total_size_saved,
  fdelete_original,  \* config['delete_original']
  video_bitrate,     \* config['video_bitrate']
  fLines,            \* lines the current process has emitted
  fInFile, fOutFile, \* the current job's files
  success            \* transcode_video's return value

ffvars == <<fpc, fcur, fstatus, fproc, fverify, fverifiedWhen, fInputDeleted,
            failed_files, processed_files, total_size_saved,
            fdelete_original, video_bitrate, fLines, fInFile, fOutFile,
            success>>

VARIABLES
  \* --- run_transcode.py: get_encoder
  epc,               \* "input" before the call, "resolved" after
  enc_in,            \* the arguments and the capability service's answer
  enc_out            \* the encoder returned

encvars == <<epc, enc_in, enc_out>>

VARIABLES
  \* --- the two verifiers, called on their own
  vpc,               \* "input" before the calls, "verified" after
  ver_in,            \* the two files, the tolerance, the codec asked for
  ver_out            \* what verify_transcoding and verify_transcoded_file say

vervars == <<vpc, ver_in, ver_out>>

VARIABLES
  \* --- run_transcode.py: parse_progress
  ppc,               \* "input" before the calls, "parsed" after
  parse_in,          \* two lines of ffmpeg output and the total duration
  parse_out          \* what parse_progress returns for each line

parsevars == <<ppc, parse_in, parse_out>>

VARIABLES
  \* --- run_transcode.py: the video-rate options of the ffmpeg command
  cpc,               \* "input", then "built" or "raised"
  cmd_in,            \* config['video_bitrate'] and the source's video stream
  cmd_out            \* the -b:v, -maxrate and -bufsize options of the command

cmdvars == <<cpc, cmd_in, cmd_out>>

vars == <<htvars, ffvars, encvars, vervars, parsevars, cmdvars>>
notHT == <<ffvars, encvars, vervars, parsevars, cmdvars>>
notFF == <<htvars, encvars, vervars, parsevars, cmdvars>>
notEnc == <<htvars, ffvars, vervars, parsevars, cmdvars>>
notVer == <<htvars, ffvars, encvars, parsevars, cmdvars>>
notParse == <<htvars, ffvars, encvars, vervars, cmdvars>>
notCmd == <<htvars, ffvars, encvars, vervars, parsevars>>

HTInit ==
  /\ hpc = "main_loop"
  /\ cur = 1
  /\ status = [j \in Jobs |-> "Queued"]
  /\ procState = [j \in Jobs |-> "none"]
  /\ verifiedWhen = [j \in Jobs |-> {}]
  /\ verifyReason = [j \in Jobs |-> "none"]
  /\ result = [j \in Jobs |-> "none"]
  /\ inputDeleted = [j \in Jobs |-> FALSE]
  /\ outputDeleted = [j \in Jobs |-> FALSE]
  /\ all_stats = <<>>
  /\ command_queue = <<>>
  /\ pause_event = FALSE
  /\ is_paused = FALSE
  /\ cancel_flag = FALSE
  /\ toggles = 0
  /\ delete_original \in BOOLEAN
  /\ linesRead = 0
  /\ line = "none"
  /\ inFile = NoFile
  /\ outFile = NoFile
  /\ transcode_result = "unset"
  /\ callbacks = 0

\* ------------------------------------------------------- the GUI thread
\* A Resume button that withdraws a pause the engine has not taken yet.
toggle_pause_retracting ==
  /\ hpc # "finished"
  /\ toggles < MaxToggles
  /\ toggles' = toggles + 1
  /\ is_paused' = ~is_paused
  /\ command_queue' =
       IF is_paused'
         THEN Append(command_queue, "p")
       ELSE IF command_queue # <<>>
                /\ command_queue[Len(command_queue)] = "p"
         THEN SubSeq(command_queue, 1, Len(command_queue) - 1)
       ELSE Append(command_queue, "r")
  /\ UNCHANGED notHT
  /\ UNCHANGED callbacks
  /\ UNCHANGED <<hpc, cur, status, procState, verifiedWhen, verifyReason,
                 result, inputDeleted, outputDeleted, all_stats, pause_event,
                 cancel_flag, delete_original, linesRead, line, inFile,
                 outFile, transcode_result>>

\* transcoder_gui.py:210-219
toggle_pause ==
  /\ hpc # "finished"
  /\ toggles < MaxToggles
  /\ toggles' = toggles + 1
  /\ is_paused' = ~is_paused
  /\ command_queue' = Append(command_queue, IF is_paused' THEN "p" ELSE "r")
  /\ UNCHANGED notHT
  /\ UNCHANGED callbacks
  /\ UNCHANGED <<hpc, cur, status, procState, verifiedWhen, verifyReason,
                 result, inputDeleted, outputDeleted, all_stats, pause_event,
                 cancel_flag, delete_original, linesRead, line, inFile,
                 outFile, transcode_result>>

\* transcoder_gui.py:221-223
cancel_transcoding ==
  /\ hpc # "finished"
  /\ ~cancel_flag
  /\ cancel_flag' = TRUE
  /\ UNCHANGED notHT
  /\ UNCHANGED callbacks
  /\ UNCHANGED <<hpc, cur, status, procState, verifiedWhen, verifyReason,
                 result, inputDeleted, outputDeleted, all_stats,
                 command_queue, pause_event, is_paused, toggles,
                 delete_original, linesRead, line, inFile, outFile,
                 transcode_result>>

\* ---------------------------------------------------- the worker thread
gui == <<is_paused, cancel_flag, toggles>>
perJobHT == <<status, procState, verifiedWhen, verifyReason, result,
              inputDeleted, outputDeleted>>

\* HT_linuxbuild.py:308-311 and 210-218: the next file of file_list is handed
\* to process_file, which reads its size and codec.
main_next_file ==
  /\ hpc = "main_loop"
  /\ cur <= MaxJobs
  /\ \E f \in HTInFiles : inFile' = f
  /\ hpc' = "enter"
  /\ UNCHANGED notHT
  /\ UNCHANGED callbacks
  /\ UNCHANGED <<cur, perJobHT, all_stats, command_queue, pause_event, gui,
                 delete_original, linesRead, line, outFile, transcode_result>>

\* HT_linuxbuild.py:324-349: file_list is exhausted.
main_finish ==
  /\ hpc = "main_loop"
  /\ cur > MaxJobs
  /\ hpc' = "finished"
  /\ UNCHANGED notHT
  /\ UNCHANGED callbacks
  /\ UNCHANGED <<cur, perJobHT, all_stats, command_queue, pause_event, gui,
                 delete_original, linesRead, line, inFile, outFile,
                 transcode_result>>

\* HT_linuxbuild.py:220 and 96-119: process_file hands the job to
\* transcode_file, which builds the HandBrakeCLI command: the engine is at
\* work on the job.
tf_enter ==
  /\ hpc = "enter"
  /\ status' = [status EXCEPT ![cur] = "Running"]
  /\ hpc' = "spawn"
  /\ UNCHANGED notHT
  /\ UNCHANGED callbacks
  /\ UNCHANGED <<cur, procState, verifiedWhen, verifyReason, result,
                 inputDeleted, outputDeleted, all_stats, command_queue,
                 pause_event, gui, delete_original, linesRead, line, inFile,
                 outFile, transcode_result>>

\* HT_linuxbuild.py:120-123 (Popen) and 184-186 (Popen raised).
tf_spawn ==
  /\ hpc = "spawn"
  /\ \/ /\ procState' = [procState EXCEPT ![cur] = "live"]
        /\ hpc' = "readline"
        /\ UNCHANGED <<status, transcode_result>>
     \/ /\ status' = [status EXCEPT ![cur] = "Failed"]
        /\ transcode_result' = "None"
        /\ hpc' = "pf_after"
        /\ UNCHANGED procState
  /\ linesRead' = 0
  /\ UNCHANGED notHT
  /\ UNCHANGED callbacks
  /\ UNCHANGED <<cur, verifiedWhen, verifyReason, result, inputDeleted,
                 outputDeleted, all_stats, command_queue, pause_event, gui,
                 delete_original, line, inFile, outFile>>

\* HT_linuxbuild.py:124-125: the process prints one more line.
tf_read_line ==
  /\ hpc = "readline"
  /\ linesRead < MaxLines
  /\ linesRead' = linesRead + 1
  /\ \E k \in {"progress", "other"} : line' = k
  /\ hpc' = "q_empty1"
  /\ UNCHANGED notHT
  /\ UNCHANGED callbacks
  /\ UNCHANGED <<cur, perJobHT, all_stats, command_queue, pause_event, gui,
                 delete_original, inFile, outFile, transcode_result>>

\* HT_linuxbuild.py:124 and 184-186: reading the pipe raised.
tf_read_fault ==
  /\ hpc = "readline"
  /\ status' = [status EXCEPT ![cur] = "Failed"]
  /\ transcode_result' = "None"
  /\ hpc' = "pf_after"
  /\ UNCHANGED notHT
  /\ UNCHANGED callbacks
  /\ UNCHANGED <<cur, procState, verifiedWhen, verifyReason, result,
                 inputDeleted, outputDeleted, all_stats, command_queue,
                 pause_event, gui, delete_original, linesRead, line, inFile,
                 outFile>>

\* HT_linuxbuild.py:124 (end of output), 157-165: process.wait() and the
\* return code test.  The process leaves the output file behind.
tf_wait ==
  /\ hpc = "readline"
  /\ \E o \in HTOutFiles(inFile) : outFile' = o
  /\ \E rc \in {"exit0", "exitnz"} :
       /\ procState' = [procState EXCEPT ![cur] = rc]
       /\ IF rc = "exitnz"
            THEN /\ status' = [status EXCEPT ![cur] = "Failed"]
                 /\ transcode_result' = "None"
                 /\ hpc' = "pf_after"
            ELSE /\ hpc' = "verify"
                 /\ UNCHANGED <<status, transcode_result>>
  /\ UNCHANGED notHT
  /\ UNCHANGED callbacks
  /\ UNCHANGED <<cur, verifiedWhen, verifyReason, result, inputDeleted,
                 outputDeleted, all_stats, command_queue, pause_event, gui,
                 delete_original, linesRead, line, inFile>>

\* HT_linuxbuild.py:126: command_queue.empty()
tf_queue_check ==
  /\ hpc = "q_empty1"
  /\ hpc' = IF command_queue # <<>> THEN "q_get1" ELSE "pause_chk"
  /\ UNCHANGED notHT
  /\ UNCHANGED callbacks
  /\ UNCHANGED <<cur, perJobHT, all_stats, command_queue, pause_event, gui,
                 delete_original, linesRead, line, inFile, outFile,
                 transcode_result>>

\* HT_linuxbuild.py:127-135: command_queue.get() blocks until a command is
\* there; 'p' sets the pause event, 'r' clears it.
\* A pause implemented by stopping the encoder process instead of holding
\* the read loop.
tf_queue_get_killing ==
  /\ hpc = "q_get1"
  /\ command_queue # <<>>
  /\ command_queue' = Tail(command_queue)
  /\ pause_event' = (Head(command_queue) = "p")
  /\ status' = [status EXCEPT
                  ![cur] = IF Head(command_queue) = "p" THEN "Paused" ELSE "Running"]
  /\ procState' = IF Head(command_queue) = "p"
                    THEN [procState EXCEPT ![cur] = "terminating"]
                    ELSE procState
  /\ hpc' = "pause_chk"
  /\ UNCHANGED notHT
  /\ UNCHANGED callbacks
  /\ UNCHANGED <<cur, verifiedWhen, verifyReason, result,
                 inputDeleted, outputDeleted, all_stats, gui, delete_original,
                 linesRead, line, inFile, outFile, transcode_result>>

tf_queue_get ==
  /\ hpc = "q_get1"
  /\ command_queue # <<>>
  /\ command_queue' = Tail(command_queue)
  /\ pause_event' = (Head(command_queue) = "p")
  /\ status' = [status EXCEPT
                  ![cur] = IF Head(command_queue) = "p" THEN "Paused" ELSE "Running"]
  /\ hpc' = "pause_chk"
  /\ UNCHANGED notHT
  /\ UNCHANGED callbacks
  /\ UNCHANGED <<cur, procState, verifiedWhen, verifyReason, result,
                 inputDeleted, outputDeleted, all_stats, gui, delete_original,
                 linesRead, line, inFile, outFile, transcode_result>>

\* HT_linuxbuild.py:137-138: while pause_event.is_set(): time.sleep(0.1)
tf_pause_check ==
  /\ hpc = "pause_chk"
  /\ hpc' = IF pause_event THEN "q_empty2" ELSE "match"
  /\ UNCHANGED notHT
  /\ UNCHANGED callbacks
  /\ UNCHANGED <<cur, perJobHT, all_stats, command_queue, pause_event, gui,
                 delete_original, linesRead, line, inFile, outFile,
                 transcode_result>>

\* A pause loop that asks the callback for a cancellation and leaves with
\* the pause still set.
tf_pause_queue_check_cancelling ==
  /\ hpc = "q_empty2"
  /\ IF cancel_flag
       THEN /\ procState' = [procState EXCEPT ![cur] = "terminating"]
            /\ status' = [status EXCEPT ![cur] = "Cancelled"]
            /\ transcode_result' = "cancelled"
            /\ \E o \in HTOutFiles(inFile) : outFile' = o
            /\ hpc' = "pf_after"
       ELSE /\ hpc' = IF command_queue # <<>> THEN "q_get2" ELSE "pause_chk"
            /\ UNCHANGED <<procState, status, transcode_result, outFile>>
  /\ UNCHANGED notHT
  /\ UNCHANGED callbacks
  /\ UNCHANGED <<cur, verifiedWhen, verifyReason, result, inputDeleted,
                 outputDeleted, all_stats, command_queue, pause_event, gui,
                 delete_original, linesRead, line, inFile>>

\* HT_linuxbuild.py:139: command_queue.empty() inside the pause loop
tf_pause_queue_check ==
  /\ hpc = "q_empty2"
  /\ hpc' = IF command_queue # <<>> THEN "q_get2" ELSE "pause_chk"
  /\ UNCHANGED notHT
  /\ UNCHANGED callbacks
  /\ UNCHANGED <<cur, perJobHT, all_stats, command_queue, pause_event, gui,
                 delete_original, linesRead, line, inFile, outFile,
                 transcode_result>>

\* HT_linuxbuild.py:140-145: only 'r' is acted on in the pause loop; any
\* other command is taken off the queue and dropped.
\* A pause loop that looks at the head of the queue without taking a
\* command other than 'r' off it.
tf_pause_queue_get_keeping ==
  /\ hpc = "q_get2"
  /\ command_queue # <<>>
  /\ IF Head(command_queue) = "r"
       THEN /\ command_queue' = Tail(command_queue)
            /\ pause_event' = FALSE
            /\ status' = [status EXCEPT ![cur] = "Running"]
            /\ hpc' = "match"
       ELSE /\ hpc' = "pause_chk"
            /\ UNCHANGED <<command_queue, pause_event, status>>
  /\ UNCHANGED notHT
  /\ UNCHANGED callbacks
  /\ UNCHANGED <<cur, procState, verifiedWhen, verifyReason, result,
                 inputDeleted, outputDeleted, all_stats, gui, delete_original,
                 linesRead, line, inFile, outFile, transcode_result>>

tf_pause_queue_get ==
  /\ hpc = "q_get2"
  /\ command_queue # <<>>
  /\ command_queue' = Tail(command_queue)
  /\ IF Head(command_queue) = "r"
       THEN /\ pause_event' = FALSE
            /\ status' = [status EXCEPT ![cur] = "Running"]
            /\ hpc' = "match"
       ELSE /\ hpc' = "pause_chk"
            /\ UNCHANGED <<pause_event, status>>
  /\ UNCHANGED notHT
  /\ UNCHANGED callbacks
  /\ UNCHANGED <<cur, procState, verifiedWhen, verifyReason, result,
                 inputDeleted, outputDeleted, all_stats, gui, delete_original,
                 linesRead, line, inFile, outFile, transcode_result>>

\* HT_linuxbuild.py:147-155 with transcoder_gui.py:228-230: a progress line
\* goes to the callback, which returns cancel_flag; on TRUE the process is
\* sent SIGTERM and transcode_file returns "cancelled".
tf_match ==
  /\ hpc = "match"
  /\ IF line = "progress" /\ cancel_flag
       THEN /\ procState' = [procState EXCEPT ![cur] = "terminating"]
            /\ status' = [status EXCEPT ![cur] = "Cancelled"]
            /\ transcode_result' = "cancelled"
            /\ \E o \in HTOutFiles(inFile) : outFile' = o
            /\ hpc' = "pf_after"
       ELSE /\ hpc' = "readline"
            /\ UNCHANGED <<procState, status, transcode_result, outFile>>
  /\ callbacks' = IF line = "progress" THEN callbacks + 1 ELSE callbacks
  /\ UNCHANGED notHT
  /\ UNCHANGED <<cur, verifiedWhen, verifyReason, result, inputDeleted,
                 outputDeleted, all_stats, command_queue, pause_event, gui,
                 delete_original, linesRead, line, inFile>>

\* tf_verify with a verifier that consumes the output file it looked at
tf_verify_consuming ==
  /\ hpc = "verify"
  /\ LET v == verify_transcoded_file(inFile, outFile) IN
       /\ verifiedWhen' = [verifiedWhen EXCEPT ![cur] = @ \cup {procState[cur]}]
       /\ verifyReason' = [verifyReason EXCEPT ![cur] = v.reason]
       /\ status' = [status EXCEPT
                       ![cur] = IF v.passed THEN "Completed" ELSE "Failed"]
       /\ transcode_result' = IF v.passed THEN "time" ELSE "None"
  /\ outFile' = [NoFile EXCEPT !.state = "missing"]
  /\ hpc' = "pf_after"
  /\ UNCHANGED notHT
  /\ UNCHANGED callbacks
  /\ UNCHANGED <<cur, procState, result, inputDeleted, outputDeleted,
                 all_stats, command_queue, pause_event, gui, delete_original,
                 linesRead, line, inFile>>

\* HT_linuxbuild.py:170-179 and 184-186: the engine's verification.
tf_verify ==
  /\ hpc = "verify"
  /\ LET v == verify_transcoded_file(inFile, outFile) IN
       /\ verifiedWhen' = [verifiedWhen EXCEPT ![cur] = @ \cup {procState[cur]}]
       /\ verifyReason' = [verifyReason EXCEPT ![cur] = v.reason]
       /\ status' = [status EXCEPT
                       ![cur] = IF v.passed THEN "Completed" ELSE "Failed"]
       /\ transcode_result' = IF v.passed THEN "time" ELSE "None"
  /\ hpc' = "pf_after"
  /\ UNCHANGED notHT
  /\ UNCHANGED callbacks
  /\ UNCHANGED <<cur, procState, result, inputDeleted, outputDeleted,
                 all_stats, command_queue, pause_event, gui, delete_original,
                 linesRead, line, inFile, outFile>>

\* HT_linuxbuild.py:222-253: what process_file does with transcode_file's
\* return value.  get_file_size raises on a missing output (223); the size
\* change divides by the original size (228).
process_file_result(tr, inF, outF) ==
  IF tr = "None" THEN [verify |-> FALSE, ok |-> FALSE]
  ELSE IF outF.state = "missing" THEN [verify |-> FALSE, ok |-> FALSE]
  ELSE LET v == verify_transcoded_file(inF, outF) IN
         [verify |-> TRUE, ok |-> v.passed /\ inF.size # 0]

\* A process_file that removes the output it does not accept.
pf_after_cleanup ==
  /\ hpc = "pf_after"
  /\ LET r == process_file_result(transcode_result, inFile, outFile) IN
       /\ verifiedWhen' = [verifiedWhen EXCEPT
            ![cur] = IF r.verify THEN @ \cup {procState[cur]} ELSE @]
       /\ inputDeleted' = [inputDeleted EXCEPT
            ![cur] = r.ok /\ delete_original]
       /\ outputDeleted' = [outputDeleted EXCEPT ![cur] = ~r.ok]
       /\ result' = [result EXCEPT ![cur] = IF r.ok THEN "True" ELSE "False"]
  /\ hpc' = "main_after"
  /\ UNCHANGED notHT
  /\ UNCHANGED callbacks
  /\ UNCHANGED <<cur, status, procState, verifyReason,
                 all_stats, command_queue, pause_event, gui, delete_original,
                 linesRead, line, inFile, outFile, transcode_result>>

pf_after ==
  /\ hpc = "pf_after"
  /\ LET r == process_file_result(transcode_result, inFile, outFile) IN
       /\ verifiedWhen' = [verifiedWhen EXCEPT
            ![cur] = IF r.verify THEN @ \cup {procState[cur]} ELSE @]
       /\ inputDeleted' = [inputDeleted EXCEPT
            ![cur] = r.ok /\ delete_original]
       /\ result' = [result EXCEPT ![cur] = IF r.ok THEN "True" ELSE "False"]
  /\ hpc' = "main_after"
  /\ UNCHANGED notHT
  /\ UNCHANGED callbacks
  /\ UNCHANGED <<cur, status, procState, verifyReason, outputDeleted,
                 all_stats, command_queue, pause_event, gui, delete_original,
                 linesRead, line, inFile, outFile, transcode_result>>

\* HT_linuxbuild.py:312-322 with transcoder_gui.py:232-236: a success is
\* appended to all_stats; command_callback takes the head of the queue and
\* main puts it back at the tail.
\* A main loop that puts a file whose result is not True back to Queued.
main_after_requeue ==
  /\ hpc = "main_after"
  /\ all_stats' = IF result[cur] = "True" THEN Append(all_stats, cur)
                                            ELSE all_stats
  /\ status' = IF result[cur] = "True" THEN status
                ELSE [status EXCEPT ![cur] = "Queued"]
  /\ command_queue' = IF command_queue = <<>> THEN command_queue
                      ELSE Append(Tail(command_queue), Head(command_queue))
  /\ cur' = cur + 1
  /\ linesRead' = 0
  /\ line' = "none"
  /\ inFile' = NoFile
  /\ outFile' = NoFile
  /\ transcode_result' = "unset"
  /\ callbacks' = 0
  /\ hpc' = "main_loop"
  /\ UNCHANGED notHT
  /\ UNCHANGED <<procState, verifiedWhen, verifyReason, result,
                 inputDeleted, outputDeleted, pause_event, gui,
                 delete_original>>

main_after ==
  /\ hpc = "main_after"
  /\ all_stats' = IF result[cur] = "True" THEN Append(all_stats, cur)
                                            ELSE all_stats
  /\ command_queue' = IF command_queue = <<>> THEN command_queue
                      ELSE Append(Tail(command_queue), Head(command_queue))
  /\ cur' = cur + 1
  /\ linesRead' = 0
  /\ line' = "none"
  /\ inFile' = NoFile
  /\ outFile' = NoFile
  /\ transcode_result' = "unset"
  /\ callbacks' = 0
  /\ hpc' = "main_loop"
  /\ UNCHANGED notHT
  /\ UNCHANGED <<perJobHT, pause_event, gui, delete_original>>

\* The operating system: a process that was sent SIGTERM dies some time
\* later; nobody waits for it.
proc_dies ==
  /\ \E j \in Jobs :
       /\ procState[j] = "terminating"
       /\ procState' = [procState EXCEPT ![j] = "killed"]
  /\ UNCHANGED notHT
  /\ UNCHANGED callbacks
  /\ UNCHANGED <<hpc, cur, status, verifiedWhen, verifyReason, result,
                 inputDeleted, outputDeleted, all_stats, command_queue,
                 pause_event, gui, delete_original, linesRead, line, inFile,
                 outFile, transcode_result>>

NextHT ==
  \/ toggle_pause
  \/ cancel_transcoding
  \/ main_next_file
  \/ main_finish
  \/ tf_enter
  \/ tf_spawn
  \/ tf_read_line
  \/ tf_read_fault
  \/ tf_wait
  \/ tf_queue_check
  \/ tf_queue_get
  \/ tf_pause_check
  \/ tf_pause_queue_check
  \/ tf_pause_queue_get
  \/ tf_match
  \/ tf_verify
  \/ pf_after
  \/ main_after
  \/ proc_dies


\* ------------------------------------------ one call of transcode_file
\* HT_linuxbuild.py:19-21, 319-322: command_queue is a module global, and
\* main() puts every command command_callback hands back onto it again, so
\* a call of transcode_file starts with whatever earlier files left there.
\* is_paused is the GUI's own flag (transcoder_gui.py:74, 210-219): TRUE
\* exactly when the last command it queued was 'p'.
LeftoverCommands ==
  { [queue |-> <<>>, is_paused |-> FALSE],
    [queue |-> <<"p">>, is_paused |-> TRUE],
    [queue |-> <<"r", "p">>, is_paused |-> FALSE] }

EngineInit ==
  /\ hpc = "main_loop"
  /\ cur = 1
  /\ status = [j \in Jobs |-> "Queued"]
  /\ procState = [j \in Jobs |-> "none"]
  /\ verifiedWhen = [j \in Jobs |-> {}]
  /\ verifyReason = [j \in Jobs |-> "none"]
  /\ result = [j \in Jobs |-> "none"]
  /\ inputDeleted = [j \in Jobs |-> FALSE]
  /\ outputDeleted = [j \in Jobs |-> FALSE]
  /\ all_stats = <<>>
  /\ \E c \in LeftoverCommands :
        /\ command_queue = c.queue
        /\ is_paused = c.is_paused
  /\ pause_event = FALSE
  /\ cancel_flag = FALSE
  /\ toggles = 0
  /\ delete_original \in BOOLEAN
  /\ linesRead = 0
  /\ line = "none"
  /\ inFile = NoFile
  /\ outFile = NoFile
  /\ transcode_result = "unset"
  /\ callbacks = 0

\* The steps of the worker thread from main()'s call of process_file to
\* its return (HT_linuxbuild.py:316-317).
EngineStep ==
  \/ main_next_file
  \/ tf_enter
  \/ tf_spawn
  \/ tf_read_line
  \/ tf_read_fault
  \/ tf_wait
  \/ tf_queue_check
  \/ tf_queue_get
  \/ tf_pause_check
  \/ tf_pause_queue_check
  \/ tf_pause_queue_get
  \/ tf_match
  \/ tf_verify
  \/ pf_after

NextEngine ==
  \/ toggle_pause
  \/ cancel_transcoding
  \/ proc_dies
  \/ EngineStep


\* =================================================== run_transcode.py
\* run_transcode.py:161   def verify_transcoding(..., tolerance=1.0)
FF_TOLERANCE == 10
VideoBitrates == {0, 3}

\* verify_transcoding rejecting a difference equal to the tolerance
verify_transcoding_strict(input_file, output_file, tolerance) ==
  IF output_file.state = "missing"
    THEN Verdict(FALSE, "Output file does not exist")
  ELSE IF output_file.size = 0
    THEN Verdict(FALSE, "Output file is empty")
  ELSE IF input_file.probe = "raise" \/ output_file.probe = "raise"
    THEN Raised
  ELSE IF input_file.probe = "nofmt" \/ output_file.probe = "nofmt"
    THEN Verdict(FALSE, "missing video information")
  ELSE IF Abs(input_file.dur - output_file.dur) >= tolerance
    THEN Verdict(FALSE, "Duration mismatch")
  ELSE Verdict(TRUE, "Verification passed")

\* run_transcode.py:161-189.  get_video_info (89-110) returns None when
\* ffprobe fails and lets the OSError through when ffprobe cannot be run.
verify_transcoding(input_file, output_file, tolerance) ==
  IF output_file.state = "missing"
    THEN Verdict(FALSE, "Output file does not exist")
  ELSE IF output_file.size = 0
    THEN Verdict(FALSE, "Output file is empty")
  ELSE IF input_file.probe = "raise" \/ output_file.probe = "raise"
    THEN Raised
  ELSE IF input_file.probe = "nofmt" \/ output_file.probe = "nofmt"
    THEN Verdict(FALSE, "missing video information")
  ELSE IF Abs(input_file.dur - output_file.dur) > tolerance
    THEN Verdict(FALSE, "Duration mismatch")
  ELSE Verdict(TRUE, "Verification passed")

\* run_transcode.py:129-159: TRUE when print_video_comparison raises.  It
\* returns early on a failed probe, and next(...) raises StopIteration on a
\* file without a video or without an audio stream.
print_video_comparison_raises(input_file, output_file) ==
  IF input_file.probe = "raise" \/ output_file.probe = "raise" THEN TRUE
  ELSE IF input_file.probe = "nofmt" \/ output_file.probe = "nofmt" THEN FALSE
  ELSE ~(input_file.video /\ output_file.video
         /\ input_file.audio /\ output_file.audio)

\* run_transcode.py:280-323: the part of transcode_video before the try
\* block.  "False": returns False; "raise": an exception leaves
\* transcode_video; "go": the command is built.
tv_prepare_outcome(installed, input_file, bitrate) ==
  IF ~installed THEN "False"
  ELSE IF input_file.probe = "raise" THEN "raise"
  ELSE IF input_file.probe = "nofmt" THEN "False"
  ELSE IF bitrate > 0 THEN "go"
  ELSE IF input_file.video THEN "go"
  ELSE "raise"

\* run_transcode.py:391-399: verification, then the comparison table, all
\* inside the try block.
tv_finish_outcome(input_file, output_file) ==
  LET v == verify_transcoding(input_file, output_file, FF_TOLERANCE) IN
    [verify |-> IF v.raised THEN "raised"
                ELSE IF v.passed THEN "passed" ELSE "failed",
     reason |-> v.reason,
     success |-> v.passed
                 /\ ~print_video_comparison_raises(input_file, output_file)]

FFInit ==
  /\ fpc = "loop"
  /\ fcur = 1
  /\ fstatus = [j \in Jobs |-> "Queued"]
  /\ fproc = [j \in Jobs |-> "none"]
  /\ fverify = [j \in Jobs |-> "none"]
  /\ fverifiedWhen = [j \in Jobs |-> {}]
  /\ fInputDeleted = [j \in Jobs |-> FALSE]
  /\ failed_files = <<>>
  /\ processed_files = <<>>
  /\ total_size_saved = 0
  /\ fdelete_original \in BOOLEAN
  /\ video_bitrate \in VideoBitrates
  /\ fLines = 0
  /\ fInFile = NoFile
  /\ fOutFile = NoFile
  /\ success = "unset"

ffconfig == <<fdelete_original, video_bitrate>>
ffstats == <<failed_files, processed_files, total_size_saved>>

\* run_transcode.py:499-506
pd_next_file ==
  /\ fpc = "loop"
  /\ fcur <= MaxJobs
  /\ \E f \in InFiles : fInFile' = f
  /\ fpc' = "prepare"
  /\ UNCHANGED notFF
  /\ UNCHANGED <<fcur, fstatus, fproc, fverify, fverifiedWhen, fInputDeleted,
                 ffstats, ffconfig, fLines, fOutFile, success>>

\* run_transcode.py:521
pd_return ==
  /\ fpc = "loop"
  /\ fcur > MaxJobs
  /\ fpc' = "returned"
  /\ UNCHANGED notFF
  /\ UNCHANGED <<fcur, fstatus, fproc, fverify, fverifiedWhen, fInputDeleted,
                 ffstats, ffconfig, fLines, fInFile, fOutFile, success>>

\* run_transcode.py:278-336.  An exception here is caught nowhere in
\* process_directory: it ends the loop, and the handler of 543-545 empties
\* the three results.
tv_prepare ==
  /\ fpc = "prepare"
  /\ \E installed \in BOOLEAN :
       LET o == tv_prepare_outcome(installed, fInFile, video_bitrate) IN
         /\ fpc' = CASE o = "go" -> "spawn"
                     [] o = "False" -> "after"
                     [] o = "raise" -> "aborted"
         /\ success' = IF o = "False" THEN "False" ELSE success
         /\ fstatus' = IF o = "False"
                         THEN [fstatus EXCEPT ![fcur] = "Failed"] ELSE fstatus
         /\ failed_files' = IF o = "raise" THEN <<>> ELSE failed_files
         /\ processed_files' = IF o = "raise" THEN <<>> ELSE processed_files
         /\ total_size_saved' = IF o = "raise" THEN 0 ELSE total_size_saved
  /\ UNCHANGED notFF
  /\ UNCHANGED <<fcur, fproc, fverify, fverifiedWhen, fInputDeleted, ffconfig,
                 fLines, fInFile, fOutFile>>

\* run_transcode.py:338-346 (Popen) and 397-399 (Popen raised)
tv_spawn ==
  /\ fpc = "spawn"
  /\ \/ /\ fproc' = [fproc EXCEPT ![fcur] = "live"]
        /\ fstatus' = [fstatus EXCEPT ![fcur] = "Running"]
        /\ fpc' = "read"
        /\ UNCHANGED success
     \/ /\ fstatus' = [fstatus EXCEPT ![fcur] = "Failed"]
        /\ success' = "False"
        /\ fpc' = "after"
        /\ UNCHANGED fproc
  /\ fLines' = 0
  /\ UNCHANGED notFF
  /\ UNCHANGED <<fcur, fverify, fverifiedWhen, fInputDeleted, ffstats,
                 ffconfig, fInFile, fOutFile>>

\* run_transcode.py:348-381: one more line of ffmpeg's output
tv_read_line ==
  /\ fpc = "read"
  /\ fLines < MaxLines
  /\ fLines' = fLines + 1
  /\ UNCHANGED notFF
  /\ UNCHANGED <<fpc, fcur, fstatus, fproc, fverify, fverifiedWhen,
                 fInputDeleted, ffstats, ffconfig, fInFile, fOutFile, success>>

\* run_transcode.py:349 and 397-399: reading the pipe raised
tv_read_fault ==
  /\ fpc = "read"
  /\ fstatus' = [fstatus EXCEPT ![fcur] = "Failed"]
  /\ success' = "False"
  /\ fpc' = "after"
  /\ UNCHANGED notFF
  /\ UNCHANGED <<fcur, fproc, fverify, fverifiedWhen, fInputDeleted, ffstats,
                 ffconfig, fLines, fInFile, fOutFile>>

\* run_transcode.py:350-351 and 383-389: the process has exited
tv_exit ==
  /\ fpc = "read"
  /\ \E o \in OutFiles(fInFile) : fOutFile' = o
  /\ \E rc \in {"exit0", "exitnz"} :
       /\ fproc' = [fproc EXCEPT ![fcur] = rc]
       /\ IF rc = "exitnz"
            THEN /\ fstatus' = [fstatus EXCEPT ![fcur] = "Failed"]
                 /\ success' = "False"
                 /\ fpc' = "after"
            ELSE /\ fpc' = "verify"
                 /\ UNCHANGED <<fstatus, success>>
  /\ UNCHANGED notFF
  /\ UNCHANGED <<fcur, fverify, fverifiedWhen, fInputDeleted, ffstats,
                 ffconfig, fLines, fInFile>>

\* run_transcode.py:391-399
tv_verify ==
  /\ fpc = "verify"
  /\ LET r == tv_finish_outcome(fInFile, fOutFile) IN
       /\ fverify' = [fverify EXCEPT ![fcur] = r.verify]
       /\ fverifiedWhen' = [fverifiedWhen EXCEPT ![fcur] = @ \cup {fproc[fcur]}]
       /\ success' = IF r.success THEN "True" ELSE "False"
       /\ fstatus' = [fstatus EXCEPT
                        ![fcur] = IF r.success THEN "Completed" ELSE "Failed"]
  /\ fpc' = "after"
  /\ UNCHANGED notFF
  /\ UNCHANGED <<fcur, fproc, fInputDeleted, ffstats, ffconfig, fLines,
                 fInFile, fOutFile>>

\* run_transcode.py:507-519
pd_after ==
  /\ fpc = "after"
  /\ IF success = "True"
       THEN /\ total_size_saved' = total_size_saved + (fInFile.size - fOutFile.size)
            /\ processed_files' = Append(processed_files,
                                         <<fcur, fInFile.size - fOutFile.size>>)
            /\ fInputDeleted' = [fInputDeleted EXCEPT ![fcur] = fdelete_original]
            /\ UNCHANGED failed_files
       ELSE /\ failed_files' = Append(failed_files, fcur)
            /\ UNCHANGED <<total_size_saved, processed_files, fInputDeleted>>
  /\ fcur' = fcur + 1
  /\ fLines' = 0
  /\ fInFile' = NoFile
  /\ fOutFile' = NoFile
  /\ success' = "unset"
  /\ fpc' = "loop"
  /\ UNCHANGED notFF
  /\ UNCHANGED <<fstatus, fproc, fverify, fverifiedWhen, ffconfig>>

NextFF ==
  \/ pd_next_file
  \/ pd_return
  \/ tv_prepare
  \/ tv_spawn
  \/ tv_read_line
  \/ tv_read_fault
  \/ tv_exit
  \/ tv_verify
  \/ pd_after

\* ============================================ run_transcode.py: get_encoder
\* Codec names as a configuration file may spell them.
CodecStrings == {"h264", "H264", "x264", "X264", "h.264", "avc", "AVC",
                 "hevc", "HEVC", "x265", "h265", "h.265", "H.265",
                 "av1", "AV1", "vp9", ""}

\* str.lower() on those names
lower(str) ==
  CASE str = "H264" -> "h264"
    [] str = "X264" -> "x264"
    [] str = "AVC" -> "avc"
    [] str = "HEVC" -> "hevc"
    [] str = "H.265" -> "h.265"
    [] str = "AV1" -> "av1"
    [] OTHER -> str

\* run_transcode.py:221-225, in the order the dictionary is walked
codec_aliases ==
  << [codec |-> "h264", aliases |-> {"x264", "h.264", "avc"}],
     [codec |-> "hevc", aliases |-> {"x265", "h265", "h.265"}],
     [codec |-> "av1", aliases |-> {}] >>

\* A normalisation that compares the name as it is written.
RECURSIVE normalize_case_sensitive(_, _)
normalize_case_sensitive(config_encoder, i) ==
  IF i > Len(codec_aliases) THEN config_encoder
  ELSE IF config_encoder \in
            {codec_aliases[i].codec}
              \cup { lower(alias) : alias \in codec_aliases[i].aliases }
    THEN codec_aliases[i].codec
  ELSE normalize_case_sensitive(config_encoder, i + 1)

\* run_transcode.py:228-231: the first codec whose name or alias matches
RECURSIVE normalize(_, _)
normalize(config_encoder, i) ==
  IF i > Len(codec_aliases) THEN config_encoder
  ELSE IF lower(config_encoder) \in
            {codec_aliases[i].codec}
              \cup { lower(alias) : alias \in codec_aliases[i].aliases }
    THEN codec_aliases[i].codec
  ELSE normalize(config_encoder, i + 1)

\* run_transcode.py:233-248
gpu_encoders ==
  [nvidia |-> [h264 |-> "h264_nvenc", hevc |-> "hevc_nvenc", av1 |-> "av1_nvenc"],
   intel |-> [h264 |-> "h264_qsv", hevc |-> "hevc_qsv", av1 |-> "av1_qsv"],
   amd |-> [h264 |-> "h264_amf", hevc |-> "hevc_amf"]]

HwEncoders == UNION { { gpu_encoders[t][c] : c \in DOMAIN gpu_encoders[t] } :
                      t \in DOMAIN gpu_encoders }

\* run_transcode.py:191-210: what detect_gpu returns
GpuTypes == {"nvidia", "intel", "amd", "cpu"}

\* config['fallback_encoder'] after load_config (75): lower case, '' if unset
Fallbacks == {"", "h264", "hevc", "av1", "x265", "vp9"}

\* The answer of `ffmpeg -encoders`: it fails, or it lists encoders.
Capabilities ==
  { [fails |-> TRUE, listed |-> {}] }
  \cup { [fails |-> FALSE, listed |-> l] : l \in SUBSET HwEncoders }

\* run_transcode.py:212-218
check_encoder_support(encoder, cap) ==
  IF cap.fails THEN FALSE ELSE encoder \in cap.listed

\* cpu_encoder without the final else branch: no encoder for an unknown codec
cpu_encoder_no_default(config_encoder) ==
  CASE config_encoder = "h264" -> "libx264"
    [] config_encoder = "hevc" -> "libx265"
    [] config_encoder = "av1" -> "libaom-av1"
    [] OTHER -> ""

\* run_transcode.py:267-276
cpu_encoder(config_encoder) ==
  CASE config_encoder = "h264" -> "libx264"
    [] config_encoder = "hevc" -> "libx265"
    [] config_encoder = "av1" -> "libaom-av1"
    [] OTHER -> "libx264"

\* get_encoder taking the fallback's GPU encoder without asking whether it
\* is supported
get_encoder_unchecked_fallback(config_encoder, gpu_type, fallback_encoder, cap) ==
  LET codec == normalize(config_encoder, 1) IN
    IF /\ gpu_type \in DOMAIN gpu_encoders
       /\ codec \in DOMAIN gpu_encoders[gpu_type]
       /\ check_encoder_support(gpu_encoders[gpu_type][codec], cap)
      THEN gpu_encoders[gpu_type][codec]
    ELSE IF /\ fallback_encoder # ""
            /\ gpu_type \in DOMAIN gpu_encoders
            /\ fallback_encoder \in DOMAIN gpu_encoders[gpu_type]
      THEN gpu_encoders[gpu_type][fallback_encoder]
    ELSE cpu_encoder(codec)

\* run_transcode.py:220-276
get_encoder(config_encoder, gpu_type, fallback_encoder, cap) ==
  LET codec == normalize(config_encoder, 1) IN
    IF /\ gpu_type \in DOMAIN gpu_encoders
       /\ codec \in DOMAIN gpu_encoders[gpu_type]
       /\ check_encoder_support(gpu_encoders[gpu_type][codec], cap)
      THEN gpu_encoders[gpu_type][codec]
    ELSE IF /\ fallback_encoder # ""
            /\ gpu_type \in DOMAIN gpu_encoders
            /\ fallback_encoder \in DOMAIN gpu_encoders[gpu_type]
            /\ check_encoder_support(gpu_encoders[gpu_type][fallback_encoder], cap)
      THEN gpu_encoders[gpu_type][fallback_encoder]
    ELSE cpu_encoder(codec)

\* The calls of check_encoder_support that asked before looking at the tier.
encoders_asked_first(config_encoder, gpu_type, fallback_encoder, cap) ==
  <<cpu_encoder(normalize(config_encoder, 1))>>

\* run_transcode.py:250-265: the encoders get_encoder passes to
\* check_encoder_support, in the order of the calls.
encoders_asked(config_encoder, gpu_type, fallback_encoder, cap) ==
  LET codec == normalize(config_encoder, 1)
      requested == IF /\ gpu_type \in DOMAIN gpu_encoders
                      /\ codec \in DOMAIN gpu_encoders[gpu_type]
                     THEN <<gpu_encoders[gpu_type][codec]>>
                     ELSE <<>>
  IN IF requested # <<>> /\ check_encoder_support(requested[1], cap)
       THEN requested
     ELSE IF /\ fallback_encoder # ""
             /\ gpu_type \in DOMAIN gpu_encoders
             /\ fallback_encoder \in DOMAIN gpu_encoders[gpu_type]
       THEN Append(requested, gpu_encoders[gpu_type][fallback_encoder])
     ELSE requested

\* An acceleration label that knows two of the three software encoders.
acceleration_two_cpu_encoders(encoder, gpu_type) ==
  IF encoder \in {"libx264", "libx265"} THEN "CPU"
  ELSE CASE gpu_type = "nvidia" -> "NVIDIA GPU"
         [] gpu_type = "intel" -> "INTEL GPU"
         [] gpu_type = "amd" -> "AMD GPU"
         [] OTHER -> "CPU GPU"

\* run_transcode.py:296-301
acceleration(encoder, gpu_type) ==
  IF encoder \in {"libx264", "libx265", "libaom-av1"} THEN "CPU"
  ELSE CASE gpu_type = "nvidia" -> "NVIDIA GPU"
         [] gpu_type = "intel" -> "INTEL GPU"
         [] gpu_type = "amd" -> "AMD GPU"
         [] OTHER -> "CPU GPU"

NoEncIn == [config_encoder |-> "", gpu_type |-> "cpu", fallback_encoder |-> "",
            cap |-> [fails |-> TRUE, listed |-> {}]]
NoEncOut == [encoder |-> "unset", acceleration |-> "unset", asked |-> <<>>]

EncInit ==
  /\ epc = "input"
  /\ enc_in \in [config_encoder : CodecStrings, gpu_type : GpuTypes,
                 fallback_encoder : Fallbacks, cap : Capabilities]
  /\ enc_out = NoEncOut

\* run_transcode.py:293-301: transcode_video resolves the encoder
resolve ==
  /\ epc = "input"
  /\ LET e == get_encoder(enc_in.config_encoder, enc_in.gpu_type,
                          enc_in.fallback_encoder, enc_in.cap) IN
       enc_out' = [encoder |-> e,
                   acceleration |-> acceleration(e, enc_in.gpu_type),
                   asked |-> encoders_asked(enc_in.config_encoder,
                                            enc_in.gpu_type,
                                            enc_in.fallback_encoder,
                                            enc_in.cap)]
  /\ epc' = "resolved"
  /\ UNCHANGED notEnc
  /\ UNCHANGED enc_in

NextEnc ==
  \/ resolve

\* ================================================ the verifiers on their own
\* Durations ffprobe may report (tenths of a second) and tolerances a caller
\* may pass.
VerDurations == {1180, 1190, 1196, 1198, 1200, 1202, 1204, 1210, 1211, 1220, 1221}
Tolerances == {0, 2, 4, 10, 20}

VerInputs ==
  { [Media(TRUE, TRUE) EXCEPT !.dur = 1200] } \cup Unprobed({"data"})
VerOutputs ==
  { [Media(TRUE, TRUE) EXCEPT !.size = 1, !.dur = d, !.codec = c] :
       d \in VerDurations, c \in Codecs }
  \cup Unprobed({"data", "missing", "empty"})

NoVerIn == [input |-> NoFile, output |-> NoFile, tolerance |-> 0,
            requested |-> "none"]
NoVerOut == [ff |-> Raised, ht |-> Raised]

VerInit ==
  /\ vpc = "input"
  /\ ver_in \in [input : VerInputs, output : VerOutputs,
                 tolerance : Tolerances, requested : Codecs]
  /\ ver_out = NoVerOut

\* run_transcode.py:391 and HT_linuxbuild.py:170: one call of each verifier
\* on the same pair of files.  ver_in.requested is the codec of the encoder
\* the configuration asks for (HT_linuxbuild.py:291); verify_transcoded_file
\* is not given it.
verify ==
  /\ vpc = "input"
  /\ ver_out' = [ff |-> verify_transcoding(ver_in.input, ver_in.output,
                                           ver_in.tolerance),
                 ht |-> verify_transcoded_file(ver_in.input, ver_in.output)]
  /\ vpc' = "verified"
  /\ UNCHANGED notVer
  /\ UNCHANGED ver_in

NextVer ==
  \/ verify

\* ================================================ the progress parser
\* A line of encoder output is a sequence of tokens.  A token is what the two
\* regular expressions of parse_progress can tell apart:
\*   "time"  with digits:  time=HH:MM:SS.cc   (matches the first expression)
\*   "time"  without:      time=N/A           (does not)
\*   "frame" with digits:  frame=   n         (matches the second expression)
\*   "frame" without:      frame=N/A          (does not)
\*   "text":               anything else
MaxTokens == 2

Token(k, digits, h, m, sec, c, n) ==
  [k |-> k, digits |-> digits, h |-> h, m |-> m, s |-> sec, c |-> c, n |-> n]
TimeToken(h, m, sec, c) == Token("time", TRUE, h, m, sec, c, 0)
FrameToken(n) == Token("frame", TRUE, 0, 0, 0, 0, n)
Tokens ==
  { TimeToken(0, 0, 59, 99), TimeToken(0, 1, 0, 0), TimeToken(1, 0, 0, 0),
    Token("time", FALSE, 0, 0, 0, 0, 0),
    FrameToken(12),
    Token("frame", FALSE, 0, 0, 0, 0, 0),
    Token("text", FALSE, 0, 0, 0, 0, 0) }

Lines == UNION { [1..n -> Tokens] : n \in 0..MaxTokens }

\* run_transcode.py:404  float(result.stdout), in hundredths of a second
ParseDurations == {-100, 0, 6000, 360000}

\* re.search: the position of the first token of the kind that matches, 0
\* when there is none.
RECURSIVE search(_, _, _)
search(output, kind, i) ==
  IF i > Len(output) THEN 0
  ELSE IF output[i].k = kind /\ output[i].digits THEN i
  ELSE search(output, kind, i + 1)

\* A reading of the minutes field in tenths of a minute.
elapsed_short_minutes(tok) ==
  tok.h * 360000 + tok.m * 600 + (tok.s * 100 + tok.c)

\* run_transcode.py:410-411, in hundredths of a second:
\*   hours * 3600 + minutes * 60 + seconds
elapsed(tok) ==
  tok.h * 360000 + tok.m * 6000 + (tok.s * 100 + tok.c)

\* run_transcode.py:413: (time / duration) * 100 if duration > 0 else 0, kept
\* as an exact fraction.
percentage(time, duration) ==
  IF duration > 0 THEN [num |-> time * 100, den |-> duration]
  ELSE [num |-> 0, den |-> 1]

None == [none |-> TRUE, time |-> 0, frame |-> 0,
         percentage |-> [num |-> 0, den |-> 1]]

\* A parser that is content with either of the two matches.
parse_progress_either(output, duration) ==
  LET time_match == search(output, "time", 1)
      frame_match == search(output, "frame", 1)
  IN IF time_match # 0 \/ frame_match # 0
       THEN LET time == IF time_match # 0 THEN elapsed(output[time_match])
                        ELSE 0
            IN [none |-> FALSE,
                time |-> time,
                frame |-> IF frame_match # 0 THEN output[frame_match].n ELSE 0,
                percentage |-> percentage(time, duration)]
       ELSE None

\* run_transcode.py:406-415
parse_progress(output, duration) ==
  LET time_match == search(output, "time", 1)
      frame_match == search(output, "frame", 1)
  IN IF time_match # 0 /\ frame_match # 0
       THEN LET time == elapsed(output[time_match])
            IN [none |-> FALSE,
                time |-> time,
                frame |-> output[frame_match].n,
                percentage |-> percentage(time, duration)]
       ELSE None

\* run_transcode.py:342: the duration is read once, before the read loop.
ParseInit ==
  /\ ppc = "first"
  /\ parse_in \in [first : Lines, second : Lines, duration : ParseDurations]
  /\ parse_out = <<>>

\* run_transcode.py:348-354: the read loop hands each line to parse_progress
\* with the same duration.
tv_parse_line ==
  /\ ppc \in {"first", "second"}
  /\ parse_out' = Append(parse_out,
                         parse_progress(IF ppc = "first" THEN parse_in.first
                                                         ELSE parse_in.second,
                                        parse_in.duration))
  /\ ppc' = IF ppc = "first" THEN "second" ELSE "done"
  /\ UNCHANGED notParse
  /\ UNCHANGED parse_in

NextParse ==
  \/ tv_parse_line

\* ================================================ the video-rate options
\* config['video_bitrate'], in kbit/s
MaxBitrate == 40
VideoBitrateSettings == 0..MaxBitrate

\* An option of the command line: absent, or a number with its suffix.
NoOption == [present |-> FALSE, value |-> 0, unit |-> ""]
Option(value, unit) == [present |-> TRUE, value |-> value, unit |-> unit]

\* What ffprobe reports of the source: whether it has a video stream, and
\* that stream's 'bit_rate' (bit/s) when the container gives one.
SourceStreams ==
  { [video |-> FALSE, bit_rate |-> NoOption] }
  \cup { [video |-> TRUE, bit_rate |-> b] :
            b \in {NoOption, Option(800, ""), Option(1500, "")} }

NoCmdIn == [video_bitrate |-> 0,
            source |-> [video |-> FALSE, bit_rate |-> NoOption]]
NoCmdOut == [b_v |-> NoOption, maxrate |-> NoOption, bufsize |-> NoOption]

\* A max-rate rounded up instead of cut off.
maxrate_rounded_up(bitrate) == (bitrate * 3 + 1) \div 2

\* run_transcode.py:316  int(config['video_bitrate'] * 1.5)
maxrate(bitrate) == (bitrate * 3) \div 2

\* run_transcode.py:314-323.  The result is the three options, or "raise"
\* when next(...) finds no video stream (320).
video_rate_options(bitrate, source) ==
  IF bitrate > 0
    THEN [raised |-> FALSE,
          options |-> [b_v |-> Option(bitrate, "k"),
                       maxrate |-> Option(maxrate(bitrate), "k"),
                       bufsize |-> Option(bitrate * 2, "k")]]
  ELSE IF ~source.video
    THEN [raised |-> TRUE, options |-> NoCmdOut]
  ELSE [raised |-> FALSE,
        options |-> [NoCmdOut EXCEPT !.b_v = source.bit_rate]]

CmdInit ==
  /\ cpc = "input"
  /\ cmd_in \in [video_bitrate : VideoBitrateSettings, source : SourceStreams]
  /\ cmd_out = NoCmdOut

\* run_transcode.py:307-336: transcode_video builds the command.
tv_build_command ==
  /\ cpc = "input"
  /\ LET r == video_rate_options(cmd_in.video_bitrate, cmd_in.source)
     IN /\ cpc' = IF r.raised THEN "raised" ELSE "built"
        /\ cmd_out' = r.options
  /\ UNCHANGED notCmd
  /\ UNCHANGED cmd_in

NextCmd ==
  \/ tv_build_command

\* ======================================================= specifications
HTIdle == HTInit /\ delete_original = FALSE
FFIdle == FFInit /\ fdelete_original = FALSE /\ video_bitrate = 0
EncIdle == epc = "idle" /\ enc_in = NoEncIn /\ enc_out = NoEncOut
VerIdle == vpc = "idle" /\ ver_in = NoVerIn /\ ver_out = NoVerOut
ParseIdle == ppc = "idle" /\ parse_in = <<>> /\ parse_out = <<>>
CmdIdle == cpc = "idle" /\ cmd_in = NoCmdIn /\ cmd_out = NoCmdOut

InitHT == HTInit /\ FFIdle /\ EncIdle /\ VerIdle /\ ParseIdle /\ CmdIdle
InitFF == HTIdle /\ FFInit /\ EncIdle /\ VerIdle /\ ParseIdle /\ CmdIdle
InitEnc == HTIdle /\ FFIdle /\ EncInit /\ VerIdle /\ ParseIdle /\ CmdIdle
InitVer == HTIdle /\ FFIdle /\ EncIdle /\ VerInit /\ ParseIdle /\ CmdIdle
InitParse == HTIdle /\ FFIdle /\ EncIdle /\ VerIdle /\ ParseInit /\ CmdIdle
InitCmd == HTIdle /\ FFIdle /\ EncIdle /\ VerIdle /\ ParseIdle /\ CmdInit
InitEngine == EngineInit /\ FFIdle /\ EncIdle /\ VerIdle /\ ParseIdle /\ CmdIdle

SpecHT == InitHT /\ [][NextHT]_vars
SpecFF == InitFF /\ [][NextFF]_vars
SpecEnc == InitEnc /\ [][NextEnc]_vars
SpecVer == InitVer /\ [][NextVer]_vars
SpecParse == InitParse /\ [][NextParse]_vars
SpecCmd == InitCmd /\ [][NextCmd]_vars
\* The worker is a thread of its own (transcoder_gui.py starts it with
\* threading.Thread) and the pause loop polls every 0.1 s, so a step of the
\* worker that stays possible is eventually taken.
SpecEngine == InitEngine /\ [][NextEngine]_vars /\ WF_vars(EngineStep)

\* =============================================================== claims
Terminal == {"Completed", "Failed", "Cancelled"}

\* C1: a job's input file is deleted only if the job's status is Completed,
\* its verification passed and deletion was requested; the input of a job
\* that ended Failed or Cancelled is never deleted.
C1_DeleteOnlyWhenCompleted ==
  \A j \in Jobs :
    inputDeleted[j] =>
      /\ status[j] = "Completed"
      /\ verifyReason[j] = "Verification passed"
      /\ delete_original

\* C2: when the progress callback signals cancellation the process is
\* terminated and the outcome the orchestrator records for the job is
\* Cancelled: neither a success nor a failure, and not counted in the
\* statistics of successes.
C2_CancelledRecordedDistinctly ==
  \A j \in Jobs :
    (status[j] = "Cancelled" /\ result[j] # "none") =>
      /\ procState[j] \in {"terminating", "killed"}
      /\ result[j] \notin {"True", "False"}
      /\ \A i \in 1..Len(all_stats) : all_stats[i] # j

\* C3: the verifier is invoked for a job only after the job's process has
\* exited with status zero, never for a process that was terminated or that
\* exited non-zero.
C3_VerifyOnlyAfterExitZero ==
  \A j \in Jobs : verifiedWhen[j] \subseteq {"exit0"}

\* C4: once the process-wide cancel made job k Cancelled, every later job
\* stays Queued and no process is ever spawned for it.
C4_NoDispatchAfterShutdown ==
  \A k \in Jobs : \A j \in Jobs :
    (status[k] = "Cancelled" /\ j > k) =>
      (status[j] = "Queued" /\ procState[j] = "none")

\* C5: for a job that was not cancelled, a non-zero exit makes it Failed; a
\* zero exit makes it Completed exactly when verification passed and Failed
\* exactly when verification failed.
C5_OutcomeFollowsExitAndVerification ==
  \A j \in Jobs :
    /\ fproc[j] = "exitnz" => fstatus[j] = "Failed"
    /\ (fproc[j] = "exit0" /\ fverify[j] = "passed") => fstatus[j] = "Completed"
    /\ (fproc[j] = "exit0" /\ fverify[j] \in {"failed", "raised"})
         => fstatus[j] = "Failed"

\* C6: a fault while preparing or supervising one job's process makes that
\* job Failed; no exception leaves the per-job call and ends the run.
C6_NoFaultEscapes ==
  fpc # "aborted"

\* C7: when the run has ended every job was dispatched, whatever the number
\* of failures before it, and every Failed job is in the failed list.
C7_FailuresRecordedRunContinues ==
  fpc \in {"returned", "aborted"} =>
    \A j \in Jobs :
      /\ fstatus[j] # "Queued"
      /\ fstatus[j] = "Failed" =>
           \E i \in 1..Len(failed_files) : failed_files[i] = j

\* C8: encoder resolution returns a non-empty encoder identifier for every
\* codec string, hardware tier, fallback codec and capability answer.
KnownEncoders == HwEncoders \cup {"libx264", "libx265", "libaom-av1"}

C8_ResolutionTotal ==
  epc = "resolved" => (enc_out.encoder # "" /\ enc_out.encoder \in KnownEncoders)

C8_Witness ==
  /\ epc = "resolved"
  /\ enc_in.config_encoder = "vp9"
  /\ enc_in.gpu_type = "nvidia"
  /\ enc_in.fallback_encoder = "vp9"
  /\ enc_out.encoder = "libx264"

\* C9: when the hardware encoder of the requested codec on the detected tier
\* is reported unsupported, the result is the fallback codec's hardware
\* encoder on that tier if a fallback is configured, exists for the tier and
\* is reported supported, and otherwise the software encoder of the canonical
\* requested codec.
CanonicalCodec(str) ==
  CASE lower(str) \in {"h264", "x264", "h.264", "avc"} -> "h264"
    [] lower(str) \in {"hevc", "x265", "h265", "h.265"} -> "hevc"
    [] lower(str) = "av1" -> "av1"
    [] OTHER -> str

SoftwareEncoderOf ==
  [h264 |-> "libx264", hevc |-> "libx265", av1 |-> "libaom-av1"]

Supported(encoder) == ~enc_in.cap.fails /\ encoder \in enc_in.cap.listed

RequestedHwUnsupported ==
  /\ enc_in.gpu_type \in DOMAIN gpu_encoders
  /\ CanonicalCodec(enc_in.config_encoder) \in DOMAIN gpu_encoders[enc_in.gpu_type]
  /\ ~Supported(gpu_encoders[enc_in.gpu_type][CanonicalCodec(enc_in.config_encoder)])

FallbackUsable ==
  /\ enc_in.fallback_encoder # ""
  /\ enc_in.fallback_encoder \in DOMAIN gpu_encoders[enc_in.gpu_type]
  /\ Supported(gpu_encoders[enc_in.gpu_type][enc_in.fallback_encoder])

C9_FallbackChain ==
  (epc = "resolved" /\ RequestedHwUnsupported) =>
    enc_out.encoder =
      IF FallbackUsable
        THEN gpu_encoders[enc_in.gpu_type][enc_in.fallback_encoder]
        ELSE SoftwareEncoderOf[CanonicalCodec(enc_in.config_encoder)]

C9_Witness ==
  /\ epc = "resolved"
  /\ enc_in.config_encoder = "h264"
  /\ enc_in.gpu_type = "nvidia"
  /\ enc_in.fallback_encoder = ""
  /\ ~enc_in.cap.fails
  /\ "h264_nvenc" \notin enc_in.cap.listed
  /\ enc_out.encoder = "libx264"
  /\ enc_out.acceleration = "CPU"

\* C10: a job whose process exits 0 but whose output is missing or empty is
\* Failed with the reason "missing or empty output", whatever the probes say.
C10_EmptyOutputReason ==
  (/\ hpc = "pf_after"
   /\ procState[cur] = "exit0"
   /\ (outFile.state = "missing" \/ outFile.size = 0)) =>
    /\ status[cur] = "Failed"
    /\ verifyReason[cur] = "Output file is missing or empty"

\* C11: the duration check passes exactly when the two durations differ by
\* at most the tolerance (a difference equal to the tolerance passes), for
\* every tolerance the caller passes to verify_transcoding and for the fixed
\* tolerance of verify_transcoded_file; 120.0 s against 120.4 s passes with
\* tolerance 1.0 s and fails with tolerance 0.2 s.
DurationsCompared ==
  /\ vpc = "verified"
  /\ ver_in.input.probe = "ok"
  /\ ver_in.output.probe = "ok"

DurationGap == Abs(ver_in.input.dur - ver_in.output.dur)

C20_ExpectedCodecIsRequested ==
  (DurationsCompared /\ DurationGap <= HT_DURATION_TOLERANCE) =>
    /\ ver_out.ht.passed <=> ver_in.output.codec = ver_in.requested
    /\ ~ver_out.ht.passed => ver_out.ht.reason = "Incorrect video codec"

\* ---------------------------------------------------------------- C13
ConsumesCommand == hpc \in {"q_get1", "q_get2"} /\ hpc' # hpc

\* C13: pausing and resuming keep the same encoder process: no step that
\* takes a pause or resume command off the queue spawns or terminates a
\* process; taking a resume command clears the pause and sends the worker
\* on with the line it holds; and every progress line the worker goes on
\* with is handed to the progress callback.
C13_PauseResumeKeepsProcess ==
  [][ /\ ConsumesCommand => procState' = procState
      /\ (ConsumesCommand /\ Head(command_queue) = "r")
           => /\ ~pause_event'
              /\ status'[cur] = "Running"
              /\ hpc' \in {"pause_chk", "match"}
      /\ (hpc = "pause_chk" /\ ~pause_event /\ hpc' # hpc) => hpc' = "match"
      /\ (hpc = "match" /\ hpc' # hpc /\ line = "progress")
           => callbacks' = callbacks + 1 ]_vars

\* Paused and resumed during the first line, which was then delivered, and
\* the same process is still running.
C13_Witness ==
  /\ cur = 1 /\ hpc = "readline" /\ linesRead = 1
  /\ toggles = 2 /\ command_queue = <<>> /\ ~pause_event
  /\ callbacks = 1 /\ procState[cur] = "live" /\ status[cur] = "Running"

\* ---------------------------------------------------------------- C14
InPauseLoop == hpc \in {"pause_chk", "q_empty2", "q_get2"}

ResumeQueued == \E i \in DOMAIN command_queue : command_queue[i] = "r"

\* C14: while the pause is set the worker is in the pause loop, the job is
\* Paused, no progress reaches the callback and the process is left alone;
\* the pause is cleared only by taking a resume command off the queue; and
\* a resume command in the queue is eventually taken, whatever is queued
\* ahead of it.
C14_PausedUntilResume ==
  /\ [](pause_event => InPauseLoop /\ status[cur] = "Paused"
                         /\ procState[cur] = "live")
  /\ [][ /\ pause_event => callbacks' = callbacks
         /\ (pause_event /\ ~pause_event')
              => /\ command_queue # <<>>
                 /\ Head(command_queue) = "r"
                 /\ command_queue' = Tail(command_queue) ]_vars
  /\ (pause_event /\ ResumeQueued) ~> ~pause_event

\* Paused with a pause command queued ahead of the resume command.
C14_Witness ==
  /\ pause_event /\ status[cur] = "Paused"
  /\ command_queue = <<"p", "r">>

\* ---------------------------------------------------------------- C17
Allowed(s, t) ==
  \/ s = t
  \/ s = "Queued" /\ t = "Running"
  \/ s = "Running" /\ t \in {"Paused"} \cup Terminal
  \/ s = "Paused" /\ t = "Running"

\* C17: a job's status moves only Queued -> Running, Running <-> Paused,
\* and Running -> Completed, Failed or Cancelled; a terminal status never
\* changes again, and neither Queued nor Paused goes to a terminal status
\* in one step.
C17_StatusTransitions ==
  [][ \A j \in Jobs : Allowed(status[j], status'[j]) ]_vars

\* The first file was paused, resumed and then cancelled at its first
\* progress line: Queued, Running, Paused, Running, Cancelled.
C17_Witness ==
  /\ cur = 1 /\ status[1] = "Cancelled"
  /\ toggles = 2 /\ command_queue = <<>> /\ callbacks = 1

\* ---------------------------------------------------------------- C18
Alive(j) == procState[j] \in {"live", "terminating"}

\* C18: at most one job is Running or Paused, at most one encoder process
\* is alive, and a process is spawned only when no other job's process is
\* still alive.
C18_SingleActiveJob ==
  /\ Cardinality({ j \in Jobs : status[j] \in {"Running", "Paused"} }) <= 1
  /\ Cardinality({ j \in Jobs : Alive(j) }) <= 1

\* ---------------------------------------------------------------- C19
\* C19: a job that is Paused when the cancel flag is set does not wait for
\* a resume command: the worker terminates the process and the job becomes
\* Cancelled, unless a resume command ends the pause first.
C19_CancelWhilePaused ==
  (cancel_flag /\ pause_event)
    ~> \/ status[cur] = "Cancelled" /\ procState[cur] \in {"terminating", "killed"}
       \/ ~pause_event

\* ---------------------------------------------------------------- C15
HasElapsedTime(output) ==
  \E i \in DOMAIN output : output[i].k = "time" /\ output[i].digits
HasFrameCount(output) ==
  \E i \in DOMAIN output : output[i].k = "frame" /\ output[i].digits

ParsedLine(i) == IF i = 1 THEN parse_in.first ELSE parse_in.second

\* C15: the parser returns none for a line without an elapsed-time token or
\* without a frame-count token and a sample exactly when the line has both;
\* parsing a line changes nothing but its own result, and equal lines give
\* equal results.
C15_NoneUnlessBothTokens ==
  /\ \A i \in DOMAIN parse_out :
       parse_out[i].none
         <=> ~(HasElapsedTime(ParsedLine(i)) /\ HasFrameCount(ParsedLine(i)))
  /\ (Len(parse_out) = 2 /\ parse_in.first = parse_in.second)
       => parse_out[1] = parse_out[2]
  /\ ppc # "idle" => HTIdle /\ FFIdle /\ EncIdle /\ VerIdle

\* A line with a time but no frame count gave none; a line with both gave a
\* sample.
C15_Witness ==
  /\ ppc = "done"
  /\ parse_in.first = <<TimeToken(0, 1, 0, 0), Token("frame", FALSE, 0, 0, 0, 0, 0)>>
  /\ parse_in.second = <<FrameToken(12), TimeToken(0, 1, 0, 0)>>
  /\ parse_out[1].none /\ ~parse_out[2].none /\ parse_out[2].frame = 12

\* ---------------------------------------------------------------- C16
\* Seconds since the start named by the first well-formed time token, in
\* hundredths.
ElapsedOf(output) ==
  LET i == CHOOSE i \in DOMAIN output :
             /\ output[i].k = "time" /\ output[i].digits
             /\ \A j \in 1..(i - 1) : ~(output[j].k = "time" /\ output[j].digits)
      tok == output[i]
  IN ((tok.h * 60 + tok.m) * 60 + tok.s) * 100 + tok.c

\* C16: a sample's percentage is 100 * elapsed / duration, and 0 when the
\* duration is not positive; so of two samples taken with the same duration
\* the one with the smaller elapsed time has the smaller-or-equal percentage.
C16_PercentMonotone ==
  /\ \A i \in DOMAIN parse_out :
       ~parse_out[i].none =>
          IF parse_in.duration > 0
            THEN /\ parse_out[i].percentage.num = 100 * ElapsedOf(ParsedLine(i))
                 /\ parse_out[i].percentage.den = parse_in.duration
            ELSE parse_out[i].percentage.num = 0
  /\ (Len(parse_out) = 2 /\ ~parse_out[1].none /\ ~parse_out[2].none
        /\ ElapsedOf(parse_in.first) <= ElapsedOf(parse_in.second))
       => /\ parse_out[1].percentage.den = parse_out[2].percentage.den
          /\ parse_out[1].percentage.den > 0
          /\ parse_out[1].percentage.num <= parse_out[2].percentage.num

\* 00:00:59.99 then 00:01:00.00 of a one-minute file: 99.98 % then 100 %.
C16_Witness ==
  /\ ppc = "done" /\ parse_in.duration = 6000
  /\ parse_in.first = <<FrameToken(12), TimeToken(0, 0, 59, 99)>>
  /\ parse_in.second = <<FrameToken(12), TimeToken(0, 1, 0, 0)>>
  /\ parse_out[1].percentage = [num |-> 599900, den |-> 6000]
  /\ parse_out[2].percentage = [num |-> 600000, den |-> 6000]

\* ---------------------------------------------------------------- C21
OutputPresent ==
  ver_in.output.state # "missing" /\ ver_in.output.size > 0

ProbeFails ==
  ver_in.input.probe # "ok" \/ ver_in.output.probe # "ok"

\* C21: both verifiers check existence and size first, then the probes, then
\* the duration, then the codec, and stop at the first failure; a failed
\* probe gives a failed result returned as a value (never an exception)
\* whose reason is neither the duration nor the codec.
C21_ChecksInOrder ==
  vpc = "verified" =>
    \A v \in {ver_out.ff, ver_out.ht} :
      /\ ~v.raised
      /\ ~OutputPresent =>
           /\ ~v.passed
           /\ v.reason \in {"Output file is missing or empty",
                            "Output file does not exist",
                            "Output file is empty"}
      /\ (OutputPresent /\ ProbeFails) =>
           /\ ~v.passed
           /\ v.reason \notin {"Duration mismatch", "Incorrect video codec",
                               "Verification passed"}

\* ---------------------------------------------------------------- C22
TargetConfigured == cpc = "built" /\ cmd_in.video_bitrate > 0
Inherited == cpc = "built" /\ cmd_in.video_bitrate = 0

\* C22 as stated: with a target bitrate b > 0 the command carries bitrate b,
\* max-rate 1.5 * b and buffer size 2 * b; with b = 0 it carries the source
\* video stream's bitrate, if it reports one, and neither of the two caps.
C22_BitrateCaps ==
  /\ TargetConfigured =>
       /\ cmd_out.b_v = Option(cmd_in.video_bitrate, "k")
       /\ cmd_out.maxrate.present /\ cmd_out.maxrate.unit = "k"
       /\ 2 * cmd_out.maxrate.value = 3 * cmd_in.video_bitrate
       /\ cmd_out.bufsize = Option(2 * cmd_in.video_bitrate, "k")
  /\ Inherited =>
       /\ cmd_out.b_v = cmd_in.source.bit_rate
       /\ ~cmd_out.maxrate.present /\ ~cmd_out.bufsize.present

\* C22 amended: the max-rate is 1.5 * b cut off to a whole number of kbit/s
\* (exactly 1.5 * b for even b only).
C22_BitrateCapsTruncated ==
  /\ TargetConfigured =>
       /\ cmd_out.b_v = Option(cmd_in.video_bitrate, "k")
       /\ cmd_out.maxrate.present /\ cmd_out.maxrate.unit = "k"
       /\ 2 * cmd_out.maxrate.value <= 3 * cmd_in.video_bitrate
       /\ 3 * cmd_in.video_bitrate < 2 * cmd_out.maxrate.value + 2
       /\ cmd_out.bufsize = Option(2 * cmd_in.video_bitrate, "k")
  /\ Inherited =>
       /\ cmd_out.b_v = cmd_in.source.bit_rate
       /\ ~cmd_out.maxrate.present /\ ~cmd_out.bufsize.present

\* A target of 3 kbit/s gives -maxrate 4k.
C22_Witness ==
  /\ TargetConfigured /\ cmd_in.video_bitrate = 3
  /\ cmd_out.maxrate = Option(4, "k") /\ cmd_out.bufsize = Option(6, "k")

\* ---------------------------------------------------------------- C23
AliasTable ==
  [h264 |-> {"x264", "h.264", "avc"}, hevc |-> {"x265", "h265", "h.265"}]

IsAliasOf(str, codec) == lower(str) \in AliasTable[codec]

\* C23: resolving an alias of h264 or of hevc, in any letter case, gives the
\* encoder that resolving the canonical name gives on the same tier, with
\* the same fallback and the same capability answer.
C23_AliasesCollapse ==
  epc = "resolved" =>
    \A codec \in DOMAIN AliasTable :
      (IsAliasOf(enc_in.config_encoder, codec) \/ lower(enc_in.config_encoder) = codec)
        => enc_out.encoder = get_encoder(codec, enc_in.gpu_type,
                                         enc_in.fallback_encoder, enc_in.cap)

\* "H.265" on an NVIDIA tier that supports hevc_nvenc.
C23_Witness ==
  /\ epc = "resolved"
  /\ enc_in.config_encoder = "H.265"
  /\ enc_in.gpu_type = "nvidia"
  /\ enc_in.fallback_encoder = "h264"
  /\ ~enc_in.cap.fails /\ "hevc_nvenc" \in enc_in.cap.listed
  /\ enc_out.encoder = "hevc_nvenc"

\* ---------------------------------------------------------------- C24
SoftwareChoice ==
  IF CanonicalCodec(enc_in.config_encoder) \in DOMAIN SoftwareEncoderOf
    THEN SoftwareEncoderOf[CanonicalCodec(enc_in.config_encoder)]
    ELSE "libx264"

\* C24: a result that is not a hardware encoder is the software encoder of
\* the canonical requested codec, libx264 for an unrecognized codec; on the
\* cpu tier that is the result whatever the codec and the fallback, and
\* check_encoder_support is not called.
C24_SoftwareEncoder ==
  epc = "resolved" =>
    /\ enc_out.encoder \notin HwEncoders => enc_out.encoder = SoftwareChoice
    /\ enc_in.gpu_type = "cpu" =>
         /\ enc_out.encoder = SoftwareChoice
         /\ enc_out.asked = <<>>

\* An unrecognized codec and a fallback with a hardware encoder elsewhere,
\* on the cpu tier.
C24_Witness ==
  /\ epc = "resolved"
  /\ enc_in.gpu_type = "cpu"
  /\ enc_in.config_encoder = "vp9"
  /\ enc_in.fallback_encoder = "hevc"
  /\ ~enc_in.cap.fails /\ "hevc_nvenc" \in enc_in.cap.listed
  /\ enc_out.encoder = "libx264" /\ enc_out.asked = <<>>

\* ---------------------------------------------------------------- C28
TierEncoders ==
  IF enc_in.gpu_type \in DOMAIN gpu_encoders
    THEN { gpu_encoders[enc_in.gpu_type][c] :
             c \in DOMAIN gpu_encoders[enc_in.gpu_type]
                     \cap {CanonicalCodec(enc_in.config_encoder),
                           enc_in.fallback_encoder} }
    ELSE {}

\* C28: a hardware encoder that is returned is the detected tier's encoder
\* for the requested or for the fallback codec, and check_encoder_support
\* was asked about it and answered yes; the job is labelled with the tier's
\* GPU exactly when a hardware encoder was selected, and CPU otherwise.
C28_HardwareEncoderSupported ==
  epc = "resolved" =>
    /\ enc_out.encoder \in HwEncoders =>
         /\ enc_out.encoder \in TierEncoders
         /\ Supported(enc_out.encoder)
         /\ enc_out.asked # <<>>
         /\ enc_out.asked[Len(enc_out.asked)] = enc_out.encoder
    /\ enc_out.acceleration = "CPU" <=> enc_out.encoder \notin HwEncoders
    /\ enc_out.encoder \in HwEncoders =>
         enc_out.acceleration =
           CASE enc_in.gpu_type = "nvidia" -> "NVIDIA GPU"
             [] enc_in.gpu_type = "intel" -> "INTEL GPU"
             [] OTHER -> "AMD GPU"

\* The requested av1 has no AMD encoder; the fallback's hevc_amf is taken.
C28_Witness ==
  /\ epc = "resolved"
  /\ enc_in.gpu_type = "amd"
  /\ enc_in.config_encoder = "AV1"
  /\ enc_in.fallback_encoder = "hevc"
  /\ enc_out.encoder = "hevc_amf"
  /\ enc_out.asked = <<"hevc_amf">>
  /\ enc_out.acceleration = "AMD GPU"

\* ---------------------------------------------------------------- C25
\* C25: the output file of a job that ended Failed or Cancelled has not been
\* removed, and from the moment the process has left it until the job is
\* done nothing changes it.
C25_OutputPreserved ==
  /\ [](\A j \in Jobs : status[j] \in {"Failed", "Cancelled"} => ~outputDeleted[j])
  /\ [][ (hpc \in {"verify", "pf_after"}) => (outFile' = outFile) ]_vars

\* A cancelled job with a partial output on disk.
C25_Witness ==
  /\ hpc = "main_after" /\ status[cur] = "Cancelled"
  /\ outFile.state = "data" /\ ~outputDeleted[cur]
  /\ result[cur] = "False"

\* ---------------------------------------------------------------- C26
OutsideSuperviseLoop ==
  hpc \in {"main_loop", "enter", "spawn", "pf_after", "main_after", "finished"}

\* C26: pause_event is set only while the worker is inside the pause loop:
\* it is clear whenever the worker is outside transcode_file's read loop,
\* so every return of transcode_file leaves it clear and the next file is
\* entered, still Queued, with the pause clear.
C26_PauseClearBetweenJobs ==
  /\ pause_event => InPauseLoop
  /\ OutsideSuperviseLoop => ~pause_event
  /\ hpc = "enter" => (~pause_event /\ status[cur] = "Queued")

\* The first file was paused and resumed and has ended; the second is being
\* entered.
C26_Witness ==
  /\ hpc = "enter" /\ cur = 2
  /\ toggles = 2 /\ command_queue = <<>> /\ ~is_paused
  /\ status[1] \in Terminal /\ ~pause_event

\* ---------------------------------------------------------------- C27
\* C27: commands take effect in the order the GUI issued them, also when
\* main() has taken one off the queue and put it back between two files:
\* whenever the queue has been emptied, the engine is paused exactly when
\* the GUI's last command was a pause.
C27_CommandsInOrder ==
  command_queue = <<>> => (pause_event <=> is_paused)

\* ---------------------------------------------------------------- C29
InSucceeded(j) ==
  Cardinality({ i \in DOMAIN processed_files : processed_files[i][1] = j })
InFailed(j) ==
  Cardinality({ i \in DOMAIN failed_files : failed_files[i] = j })

RECURSIVE SumSaved(_)
SumSaved(files) ==
  IF files = <<>> THEN 0 ELSE files[1][2] + SumSaved(Tail(files))

RunEnded == fpc \in {"returned", "aborted"}

\* C29: between two jobs every job dispatched so far is once in exactly one
\* of processed_files and failed_files; when the run has ended the two
\* lists together hold as many entries as files were discovered; and the
\* total saved is the sum of the sizes saved by the succeeded jobs.
C29_StatisticsPartition ==
  /\ fpc = "loop" =>
       \A j \in Jobs : j < fcur => InSucceeded(j) + InFailed(j) = 1
  /\ RunEnded => Len(processed_files) + Len(failed_files) = MaxJobs
  /\ fpc \in {"loop", "returned", "aborted"} =>
       total_size_saved = SumSaved(processed_files)

\* ---------------------------------------------------------------- C30
AtGet == hpc \in {"q_get1", "q_get2"}

\* C30: whenever the worker is about to call command_queue.get() a command
\* is in the queue, in every interleaving with the GUI thread: the queue
\* gets shorter only by that call, and any other step leaves what is
\* queued in place.
C30_GetNeverBlocks ==
  /\ [](AtGet => command_queue # <<>>)
  /\ [][ /\ Len(command_queue') < Len(command_queue) => (AtGet /\ hpc' # hpc)
         /\ (AtGet /\ hpc' = hpc) =>
              SubSeq(command_queue', 1, Len(command_queue)) = command_queue ]_vars

\* The worker is about to take a command while the GUI has queued a second.
C30_Witness ==
  /\ hpc = "q_get1" /\ linesRead = 1 /\ ~pause_event
  /\ command_queue = <<"p", "r">>

====
